---- MODULE Spec2Model ----
(***************************************************************************)
(* Model of the amalgam Python binding (howsoai/amalgam-lang-py):          *)
(*   - CAPIScopeManager (scope_manager.py): scopes and paced gc.collect,   *)
(*     and CAPIScope (c_api_scope.py),                                     *)
(*   - the engine operations of Amalgam (api.py) that run inside a scope   *)
(*     and release native strings through DeleteString,                    *)
(*   - Amalgam._get_library_path (api.py): library resolution.             *)
(* Python values are records tagged with their type; text is a sequence of *)
(* one-character strings so that prefixes and concatenation are computed.  *)
(***************************************************************************)
EXTENDS Integers, Sequences, FiniteSets, TLC

(***************************************************************************)
(* Bounds of the model.                                                    *)
(***************************************************************************)
MaxInterval == 3
MaxExits == 6
MaxDepth == 2
MaxTraceSteps == 2

(***************************************************************************)
(* Python values used by the scope manager.                                *)
(***************************************************************************)
PyNone == [type |-> "NoneType"]
PyInt(n) == [type |-> "int", val |-> n]
IsInt(v) == v.type = "int"
Max(a, b) == IF a >= b THEN a ELSE b

\* The values a caller passes as gc_interval: None (the default) or an int.
IntervalArgs == {PyNone} \cup {PyInt(n) : n \in -1..MaxInterval}

\* Attribute access on an object modelled as a function from names to values.
HasAttr(obj, name) == name \in DOMAIN obj
SetAttr(obj, name, v) == (name :> v) @@ obj

(***************************************************************************)
(* CAPIScopeManager.__init__: an int interval is stored (minus one, not    *)
(* below zero) in _gc_interval; any other value assigns the attribute      *)
(* gc_interval (no leading underscore) and leaves _gc_interval unset.      *)
(***************************************************************************)
ManagerInit_none_as_zero(arg) ==
    IF IsInt(arg)
    THEN ("_gc_interval" :> PyInt(Max(0, arg.val - 1))) @@ ("_op_count" :> PyInt(0))
    ELSE ("_gc_interval" :> PyInt(0)) @@ ("_op_count" :> PyInt(0))

ManagerInit_no_decrement(arg) ==
    IF IsInt(arg)
    THEN ("_gc_interval" :> PyInt(Max(0, arg.val))) @@ ("_op_count" :> PyInt(0))
    ELSE ("gc_interval" :> PyNone) @@ ("_op_count" :> PyInt(0))

ManagerInit(arg) ==
    IF IsInt(arg)
    THEN ("_gc_interval" :> PyInt(Max(0, arg.val - 1))) @@ ("_op_count" :> PyInt(0))
    ELSE ("gc_interval" :> PyNone) @@ ("_op_count" :> PyInt(0))

(***************************************************************************)
(* CAPIScopeManager._gc, as a function of the manager's attributes: the    *)
(* new attributes, whether gc.collect() ran, and the error raised ("none"  *)
(* when it returns).  Reading an attribute that was never assigned raises  *)
(* AttributeError before anything else happens.                            *)
(***************************************************************************)
Gc_strict_compare(m) ==
    IF ~HasAttr(m, "_gc_interval")
    THEN [mgr |-> m, collected |-> FALSE, error |-> "AttributeError"]
    ELSE IF m["_gc_interval"] = PyNone
    THEN [mgr |-> m, collected |-> FALSE, error |-> "none"]
    ELSE IF m["_op_count"].val > m["_gc_interval"].val
    THEN [mgr |-> SetAttr(m, "_op_count", PyInt(0)), collected |-> TRUE,
          error |-> "none"]
    ELSE [mgr |-> SetAttr(m, "_op_count", PyInt(m["_op_count"].val + 1)),
          collected |-> FALSE, error |-> "none"]

Gc(m) ==
    IF ~HasAttr(m, "_gc_interval")
    THEN [mgr |-> m, collected |-> FALSE, error |-> "AttributeError"]
    ELSE IF m["_gc_interval"] = PyNone
    THEN [mgr |-> m, collected |-> FALSE, error |-> "none"]
    ELSE IF m["_op_count"].val >= m["_gc_interval"].val
    THEN [mgr |-> SetAttr(m, "_op_count", PyInt(0)), collected |-> TRUE,
          error |-> "none"]
    ELSE [mgr |-> SetAttr(m, "_op_count", PyInt(m["_op_count"].val + 1)),
          collected |-> FALSE, error |-> "none"]

(***************************************************************************)
(* The finally block of capi_scope, run when the body ended with bodyErr   *)
(* ("none" for a normal return): del scope_vars, then self._gc().  An      *)
(* error raised inside finally replaces the one that was propagating.      *)
(***************************************************************************)
ScopeFinally(m, bodyErr) ==
    LET g == Gc(m) IN
    [mgr |-> g.mgr, collected |-> g.collected,
     observed |-> IF g.error # "none" THEN g.error ELSE bodyErr]

(***************************************************************************)
(* Text.  A str is a sequence of one-character strings.                    *)
(***************************************************************************)
PyStr(t) == [type |-> "str", val |-> t]
\* Truth value of an optional str argument: None and "" are false.
Truthy(v) == v.type = "str" /\ v.val # <<>>

StartsWith(t, prefix) ==
    Len(t) >= Len(prefix) /\ SubSeq(t, 1, Len(prefix)) = prefix

LowerChar(c) ==
    CASE c = "A" -> "a" [] c = "D" -> "d" [] c = "L" -> "l" [] c = "M" -> "m"
      [] c = "O" -> "o" [] c = "S" -> "s" [] c = "W" -> "w" [] OTHER -> c
\* str.lower
Lower(t) == [i \in 1..Len(t) |-> LowerChar(t[i])]

\* Positions of the character c in t.
Positions(t, c) == {i \in 1..Len(t) : t[i] = c}
SetMax(S) == CHOOSE x \in S : \A y \in S : y <= x
SetMin(S) == CHOOSE x \in S : \A y \in S : x <= y

\* Path(p).name: what follows the last separator.
PathName(p) ==
    IF Positions(p, "/") = {} THEN p
    ELSE SubSeq(p, SetMax(Positions(p, "/")) + 1, Len(p))
\* Path(p).parent, for a path with a separator.
PathParent(p) == SubSeq(p, 1, SetMax(Positions(p, "/")) - 1)
\* Path(a, b)
PathJoin(a, b) == a \o <<"/">> \o b

HomeDir == <<"/", "h">>
\* Path.expanduser: a leading "~" component becomes the home directory.
ExpandUser(p) ==
    IF p = <<"~">> \/ StartsWith(p, <<"~", "/">>)
    THEN HomeDir \o SubSeq(p, 2, Len(p))
    ELSE p

(***************************************************************************)
(* Amalgam._parse_postfix: re.findall(r'-(.+?)\.', filename) and "-" plus  *)
(* the last match, None without a match.  A match starts at a "-" and ends *)
(* at the first "." that leaves at least one character between them; the   *)
(* scan resumes after the end of a match.                                  *)
(***************************************************************************)
MatchEnd(t, i) ==
    LET ends == {j \in Positions(t, ".") : j >= i + 2} IN
    IF t[i] = "-" /\ ends # {} THEN SetMin(ends) ELSE 0

RECURSIVE FindAll(_, _)
FindAll(t, i) ==
    IF i > Len(t) THEN <<>>
    ELSE IF MatchEnd(t, i) # 0
    THEN <<SubSeq(t, i + 1, MatchEnd(t, i) - 1)>> \o FindAll(t, MatchEnd(t, i) + 1)
    ELSE FindAll(t, i + 1)

ParsePostfix(filename) ==
    LET matches == FindAll(filename, 1) IN
    IF Len(matches) > 0 THEN PyStr(<<"-">> \o matches[Len(matches)]) ELSE PyNone

(***************************************************************************)
(* Amalgam._get_allowed_postfixes: the postfixes of the files matching     *)
(* "amalgam*" in the directory.                                            *)
(***************************************************************************)
T_amalgam == <<"a", "m", "a", "l", "g", "a", "m">>

GetAllowedPostfixes(files, dir) ==
    {ParsePostfix(PathName(f)) :
        f \in {g \in files : /\ Positions(g, "/") # {}
                             /\ PathParent(g) = dir
                             /\ StartsWith(PathName(g), T_amalgam)}}
      \ {PyNone}

(***************************************************************************)
(* Amalgam._get_library_path.  The result is either                        *)
(*   [kind |-> "ok", path, postfix, warned]  (warned: a UserWarning was    *)
(*   emitted) or [kind |-> "error", class, cause], with the field warned   *)
(*   when the error follows the place where the warning is emitted.        *)
(***************************************************************************)
T_windows == <<"w", "i", "n", "d", "o", "w", "s">>
T_darwin == <<"d", "a", "r", "w", "i", "n">>
T_linux == <<"l", "i", "n", "u", "x">>
T_dll == <<"d", "l", "l">>
T_dylib == <<"d", "y", "l", "i", "b">>
T_so == <<"s", "o">>
T_amd64 == <<"a", "m", "d", "6", "4">>
T_arm64 == <<"a", "r", "m", "6", "4">>
T_arm64_8a == <<"a", "r", "m", "6", "4", "_", "8", "a">>
T_x86_64 == <<"x", "8", "6", "_", "6", "4">>
T_aarch64 == <<"a", "a", "r", "c", "h", "6", "4">>
T_mt == <<"-", "m", "t">>
T_st == <<"-", "s", "t">>
\* Path(Path(__file__).parent, 'lib')
LibRoot == <<"/", "p", "k", "g", "/", "l", "i", "b">>

Ok(path, postfix, warned) ==
    [kind |-> "ok", path |-> path, postfix |-> postfix, warned |-> warned]
Error(class, cause) == [kind |-> "error", class |-> class, cause |-> cause]

\* The postfix check that opens the method.
PostfixMalformed(library_postfix) ==
    Truthy(library_postfix) /\ ~StartsWith(library_postfix.val, <<"-">>)

\* The condition under which the UserWarning is emitted: a supplied postfix
\* that is not the one parsed from the file name of library_path.
PostfixMismatch_any_supplied(library_postfix, parsed) ==
    Truthy(library_postfix)

PostfixMismatch(library_postfix, parsed) ==
    Truthy(library_postfix) /\ library_postfix # parsed

\* The branch taken when library_path is given.
ResolveExplicit_no_expanduser(files, library_path, library_postfix) ==
    LET filename == PathName(library_path.val)
        parsed == ParsePostfix(filename)
        warned == PostfixMismatch(library_postfix, parsed)
        path == library_path.val
    IN  IF path \notin files
        THEN Error("FileNotFoundError", "library_path") @@ [warned |-> warned]
        ELSE Ok(path, parsed, warned)

ResolveExplicit(files, library_path, library_postfix) ==
    LET filename == PathName(library_path.val)
        parsed == ParsePostfix(filename)
        warned == PostfixMismatch(library_postfix, parsed)
        path == ExpandUser(library_path.val)
    IN  IF path \notin files
        THEN Error("FileNotFoundError", "library_path") @@ [warned |-> warned]
        ELSE Ok(path, parsed, warned)

\* The architecture used when none is supplied: platform.machine(), lowered
\* and normalized.
DetectArch_exact_names(machine) ==
    LET a == Lower(machine) IN
    IF a = T_x86_64 THEN T_amd64
    ELSE IF a = T_aarch64 \/ a = T_arm64 THEN T_arm64
    ELSE a

DetectArch(machine) ==
    LET a == Lower(machine) IN
    IF a = T_x86_64 THEN T_amd64
    ELSE IF StartsWith(a, T_aarch64) \/ StartsWith(a, T_arm64) THEN T_arm64
    ELSE a

EffectiveArch(machine, arch) ==
    IF ~Truthy(arch) THEN DetectArch(machine) ELSE arch.val

OsTable_windows_arm64 ==
    (T_windows :> [path_os |-> T_windows, path_ext |-> T_dll,
                   archs |-> {T_amd64, T_arm64}])
    @@ (T_darwin :> [path_os |-> T_darwin, path_ext |-> T_dylib,
                     archs |-> {T_amd64, T_arm64}])
    @@ (T_linux :> [path_os |-> T_linux, path_ext |-> T_so,
                    archs |-> {T_amd64, T_arm64, T_arm64_8a}])

\* Directory name, extension and supported architectures per system.
OsTable ==
    (T_windows :> [path_os |-> T_windows, path_ext |-> T_dll,
                   archs |-> {T_amd64}])
    @@ (T_darwin :> [path_os |-> T_darwin, path_ext |-> T_dylib,
                     archs |-> {T_amd64, T_arm64}])
    @@ (T_linux :> [path_os |-> T_linux, path_ext |-> T_so,
                    archs |-> {T_amd64, T_arm64, T_arm64_8a}])

DefaultPostfix_always_mt(arch) == T_mt

DefaultPostfix(arch) == IF arch # T_arm64_8a THEN T_mt ELSE T_st

\* The error raised when the assembled path does not exist: the postfix
\* parsed back from the file name is looked up in the allowed postfixes.
MissingLibraryError_no_empty_check(allowed, parsed) ==
    IF parsed \notin allowed
    THEN Error("RuntimeError", "library_postfix")
    ELSE Error("FileNotFoundError", "default")

MissingLibraryError(allowed, parsed) ==
    IF allowed # {} /\ parsed \notin allowed
    THEN Error("RuntimeError", "library_postfix")
    ELSE Error("FileNotFoundError", "default")

\* The branch taken when no library_path is given.
ResolveDefault(files, system, machine, library_postfix, arch) ==
    LET os == Lower(system)
        a == EffectiveArch(machine, arch)
    IN  IF os \notin DOMAIN OsTable
        THEN Error("RuntimeError", "platform")
        ELSE IF a \notin OsTable[os].archs
        THEN Error("RuntimeError", "architecture")
        ELSE LET postfix == IF ~Truthy(library_postfix)
                            THEN DefaultPostfix(a) ELSE library_postfix.val
                 dir_path == PathJoin(PathJoin(LibRoot, OsTable[os].path_os), a)
                 filename == T_amalgam \o postfix \o <<".">> \o OsTable[os].path_ext
                 path == PathJoin(dir_path, filename)
                 allowed == GetAllowedPostfixes(files, dir_path)
             IN  IF path \in files
                 THEN Ok(path, PyStr(postfix), FALSE)
                 ELSE MissingLibraryError(allowed, ParsePostfix(filename))

GetLibraryPath_check_in_default_branch(files, system, machine, library_path, library_postfix, arch) ==
    IF Truthy(library_path)
    THEN ResolveExplicit(files, library_path, library_postfix)
    ELSE IF PostfixMalformed(library_postfix)
    THEN Error("ValueError", "library_postfix")
    ELSE ResolveDefault(files, system, machine, library_postfix, arch)

GetLibraryPath(files, system, machine, library_path, library_postfix, arch) ==
    IF PostfixMalformed(library_postfix)
    THEN Error("ValueError", "library_postfix")
    ELSE IF Truthy(library_path)
    THEN ResolveExplicit(files, library_path, library_postfix)
    ELSE ResolveDefault(files, system, machine, library_postfix, arch)

(***************************************************************************)
(* Errors a caller can observe.  "none" stands for a normal return.        *)
(***************************************************************************)
BodyErrors == {"BodyError"}
DecodeNoneError == "AttributeError(decode)"
UnicodeDecodeError == "UnicodeDecodeError"

\* Attribute names the bodies in api.py register on the scope object.
AttrNames == {"handle_buf", "label_buf"}

\* What a native call can hand back for a char pointer: a null pointer,
\* bytes that are valid UTF-8, or bytes that are not.
PtrKinds == {"null", "utf8", "bad"}

(***************************************************************************)
(* The environments and arguments _get_library_path is exercised with.     *)
(***************************************************************************)
Systems == {<<"L", "i", "n", "u", "x">>, <<"W", "i", "n", "d", "o", "w", "s">>, <<"D", "a", "r", "w", "i", "n">>, <<"S", "u", "n", "O", "S">>}
Machines == {<<"x", "8", "6", "_", "6", "4">>, <<"A", "M", "D", "6", "4">>, <<"a", "a", "r", "c", "h", "6", "4", "_", "b", "e">>, <<"a", "r", "m", "6", "4">>, <<"i", "3", "8", "6">>}
PathArgs == {PyNone, PyStr(<<"/", "x", "/", "a", "m", "a", "l", "g", "a", "m", "-", "s", "t", ".", "d", "l", "l">>), PyStr(<<"~", "/", "a", "m", "a", "l", "g", "a", "m", ".", "s", "o">>)}
PostfixArgs ==
    {PyNone, PyStr(<<>>), PyStr(T_mt), PyStr(T_st), PyStr(<<"m", "t">>), PyStr(<<"-", "a", "b", "c">>)}
ArchArgs ==
    {PyNone, PyStr(T_amd64), PyStr(T_arm64), PyStr(T_arm64_8a), PyStr(T_x86_64)}

SupportedPairs ==
    {<<os, a>> : os \in DOMAIN OsTable, a \in {T_amd64, T_arm64, T_arm64_8a}}
        \cap {pr \in (DOMAIN OsTable) \X {T_amd64, T_arm64, T_arm64_8a} :
                 pr[2] \in OsTable[pr[1]].archs}
LibFile(os, a, postfix) ==
    PathJoin(PathJoin(PathJoin(LibRoot, os), a),
             T_amalgam \o postfix \o <<".">> \o OsTable[os].path_ext)
\* Disks with one populated library directory and some files elsewhere.
DiskPostfixes == {T_mt, T_st, <<>>}
\* A file of the library directory that is not a library.
StrayFile(os, a) ==
    PathJoin(PathJoin(PathJoin(LibRoot, os), a), T_amalgam \o T_st \o <<".", "b", "a", "k">>)
OtherFiles == {<<"/", "x", "/", "a", "m", "a", "l", "g", "a", "m", "-", "s", "t", ".", "d", "l", "l">>, <<"/", "h", "/", "a", "m", "a", "l", "g", "a", "m", ".", "s", "o">>}
FileSystems ==
    UNION {{{LibFile(pr[1], pr[2], v) : v \in vs} \cup stray \cup others :
                vs \in SUBSET DiskPostfixes,
                stray \in SUBSET {StrayFile(pr[1], pr[2])},
                others \in SUBSET OtherFiles} :
           pr \in SupportedPairs}

HostEnv ==
    [system |-> <<"L", "i", "n", "u", "x">>, machine |-> <<"x", "8", "6", "_", "6", "4">>,
     files |-> {LibFile(T_linux, T_amd64, T_mt)}]
NoCall == [called |-> FALSE]

(***************************************************************************)
(* The execution trace.  The trace directory is a function from the paths  *)
(* of its files to their lines; a line is its kind and its words.  The     *)
(* time stamp of a "# TIME" line and the arguments other than the entity   *)
(* handle of LOAD_ENTITY are left out of the words.                        *)
(***************************************************************************)
Line(kind, text) == [kind |-> kind, text |-> text]
CommandLine(text) == Line("command", text)
ReplyLine == Line("result", <<"# RESULT >">>)
TimeLine(label) == Line("time", <<"# TIME", label>>)
NoteLine == Line("note", <<"# NOTE >">>)
BlankLine == Line("blank", <<>>)
ExitLine == Line("exit", <<"EXIT">>)
\* What a file of the directory holds before the handle exists.
OldLine == Line("other", <<"old">>)

NoAttrs == [n \in {} |-> PyNone]
GetAttr(obj, name, default) == IF HasAttr(obj, name) THEN obj[name] ELSE default

\* f'{counter}'
Digit(d) == <<"0", "1", "2", "3", "4", "5", "6", "7", "8", "9">>[d + 1]
RECURSIVE FormatInt(_)
FormatInt(n) ==
    IF n < 10 THEN <<Digit(n)>>
    ELSE FormatInt(n \div 10) \o <<Digit(n % 10)>>

\* Path.cwd(), the directory used when execution_trace_dir is None.
TraceDir == <<"/", "w">>

\* A file object returned by open(): the handle refers to it by its index in
\* the sequence of the file objects opened so far.
PyFile(id) == [type |-> "file", id |-> id]
\* open(path, 'w+'): the file is created, or truncated when it exists.
OpenWPlus(d, path) == (path :> <<>>) @@ d
\* file.write of whole lines followed by flush (or close).
Write(d, path, lines) == [d EXCEPT ![path] = @ \o lines]

\* The while loop that puts a counter on the file name while the path exists.
RECURSIVE RotatePath(_, _, _, _, _)
RotatePath(d, dir, base, path, counter) ==
    IF path \in DOMAIN d
    THEN RotatePath(d, dir, base,
                    PathJoin(dir, base \o <<".">> \o FormatInt(counter)),
                    counter + 1)
    ELSE path

\* The path the trace is opened at: Path(dir, file), rotated unless appending.
TracePath_no_rotation(d, dir, file, append) ==
    PathJoin(dir, file)

TracePath(d, dir, file, append) ==
    IF ~append
    THEN RotatePath(d, dir, file, PathJoin(dir, file), 1)
    ELSE PathJoin(dir, file)

\* open(path, 'w+') and the file object it returns; asked is the file name
\* the caller gave.
OpenTrace(d, fo, path, asked) ==
    [disk |-> OpenWPlus(d, path),
     fobjs |-> Append(fo, [path |-> path, closed |-> FALSE, asked |-> asked])]

(***************************************************************************)
(* Amalgam.__init__ after library resolution, up to the loading of the     *)
(* library: append_trace_file is stored, then a trace file is opened if    *)
(* trace is true, and trace is None otherwise.                             *)
(***************************************************************************)
InitTraceSink_ignores_flag(args, d, fo) ==
    LET path == TracePath(d, TraceDir, args.execution_trace_file,
                          args.append_trace_file)
        o == OpenTrace(d, fo, path, args.execution_trace_file)
    IN  [attrs |-> ("append_trace_file" :> args.append_trace_file)
                   @@ ("base_execution_trace_file"
                          :> PyStr(args.execution_trace_file))
                   @@ ("execution_trace_dir" :> PyStr(TraceDir))
                   @@ ("execution_trace_filepath" :> PyStr(path))
                   @@ ("trace" :> PyFile(Len(o.fobjs))),
         disk |-> o.disk, fobjs |-> o.fobjs]

InitTraceSink(args, d, fo) ==
    IF args.trace
    THEN LET path == TracePath(d, TraceDir, args.execution_trace_file,
                               args.append_trace_file)
             o == OpenTrace(d, fo, path, args.execution_trace_file)
         IN  [attrs |-> ("append_trace_file" :> args.append_trace_file)
                        @@ ("base_execution_trace_file"
                               :> PyStr(args.execution_trace_file))
                        @@ ("execution_trace_dir" :> PyStr(TraceDir))
                        @@ ("execution_trace_filepath" :> PyStr(path))
                        @@ ("trace" :> PyFile(Len(o.fobjs))),
              disk |-> o.disk, fobjs |-> o.fobjs]
    ELSE [attrs |-> ("append_trace_file" :> args.append_trace_file)
                    @@ ("trace" :> PyNone),
          disk |-> d, fobjs |-> fo]

(***************************************************************************)
(* Amalgam.__init__: library resolution, the trace, cdll.LoadLibrary       *)
(* (loads: whether it succeeds), load_command_log_entry.  The result is    *)
(* the attributes assigned on the instance, the trace directory, the file  *)
(* objects, the outcome of the resolution and whether __init__ returned.   *)
(* The scope manager made last is kept apart from the other attributes.    *)
(***************************************************************************)
AmalgamInit_trace_first(args, e, r, d, fo, loads) ==
    LET out == GetLibraryPath(e.files, e.system, e.machine, r.library_path,
                              r.library_postfix, r.arch)
        sink == InitTraceSink(args, d, fo)
    IN  IF out.kind = "error"
        THEN [phase |-> "failed", handle |-> sink.attrs, disk |-> sink.disk,
              fobjs |-> sink.fobjs, out |-> out]
        ELSE LET located == ("library_path" :> PyStr(out.path))
                                @@ ("library_postfix" :> out.postfix)
             IN  IF ~loads
                 THEN [phase |-> "failed", handle |-> sink.attrs @@ located,
                       disk |-> sink.disk, fobjs |-> sink.fobjs, out |-> out]
                 ELSE [phase |-> "live",
                       handle |-> ("amlg" :> PyStr(out.path))
                                  @@ ("load_command_log_entry" :> PyNone)
                                  @@ sink.attrs @@ located,
                       disk |-> sink.disk, fobjs |-> sink.fobjs, out |-> out]

AmalgamInit(args, e, r, d, fo, loads) ==
    LET out == GetLibraryPath(e.files, e.system, e.machine, r.library_path,
                              r.library_postfix, r.arch)
    IN  IF out.kind = "error"
        THEN [phase |-> "failed", handle |-> NoAttrs, disk |-> d,
              fobjs |-> fo, out |-> out]
        ELSE LET located == ("library_path" :> PyStr(out.path))
                                @@ ("library_postfix" :> out.postfix)
                 sink == InitTraceSink(args, d, fo)
             IN  IF ~loads
                 THEN [phase |-> "failed", handle |-> sink.attrs @@ located,
                       disk |-> sink.disk, fobjs |-> sink.fobjs, out |-> out]
                 ELSE [phase |-> "live",
                       handle |-> ("amlg" :> PyStr(out.path))
                                  @@ ("load_command_log_entry" :> PyNone)
                                  @@ sink.attrs @@ located,
                       disk |-> sink.disk, fobjs |-> sink.fobjs, out |-> out]

(***************************************************************************)
(* _log_execution, _log_reply, _log_time and _log_comment: each writes its *)
(* line and flushes if self.trace is true, and does nothing otherwise.     *)
(***************************************************************************)
Tracing(h) == h["trace"] # PyNone
LogWrite(h, d, fo, lines) ==
    IF Tracing(h) THEN Write(d, fo[h["trace"].id].path, lines) ELSE d

(***************************************************************************)
(* The error the first write of an operation raises, if any.  None of the  *)
(* _log_ methods catches anything: a write to a closed file raises         *)
(* ValueError, and a write the operating system refuses raises OSError.    *)
(***************************************************************************)
TraceIOErrors == {"OSError", "ValueError"}
WriteError(h, fo, lines) ==
    IF ~Tracing(h) \/ lines = <<>> THEN "none"
    ELSE IF fo[h["trace"].id].closed THEN "ValueError"
    ELSE "none"

(***************************************************************************)
(* Amalgam.reset_trace(file).                                              *)
(***************************************************************************)
ResetTraceSink(h, d, fo, file, opens) ==
    IF h["trace"] = PyNone
    THEN [handle |-> h, disk |-> d, fobjs |-> fo, error |-> "none"]
    ELSE IF fo[h["trace"].id].closed
    THEN [handle |-> h, disk |-> d, fobjs |-> fo, error |-> "ValueError"]
    ELSE LET id == h["trace"].id
             d1 == Write(d, fo[id].path, <<ExitLine>>)
             fo1 == [fo EXCEPT ![id].closed = TRUE]
             path == TracePath(d1, h["execution_trace_dir"].val, file,
                               h["append_trace_file"])
             o == OpenTrace(d1, fo1, path, file)
             h1 == SetAttr(SetAttr(h, "execution_trace_filepath", PyStr(path)),
                           "trace", PyFile(Len(o.fobjs)))
         IN  IF ~opens
             THEN [handle |-> SetAttr(h, "execution_trace_filepath", PyStr(path)),
                   disk |-> d1, fobjs |-> fo1, error |-> "OSError"]
             ELSE [handle |-> h1,
                   disk |-> IF h["load_command_log_entry"] # PyNone
                            THEN Write(o.disk, path, <<h["load_command_log_entry"]>>)
                            ELSE o.disk,
                   fobjs |-> o.fobjs, error |-> "none"]

(***************************************************************************)
(* Amalgam.__del__: EXIT is written if the instance has a true attribute   *)
(* debug and a trace; the file is not closed here.                         *)
(***************************************************************************)
AmalgamDel(h, d, fo) ==
    IF /\ GetAttr(h, "debug", FALSE) = TRUE
       /\ GetAttr(h, "trace", PyNone) # PyNone
       /\ ~fo[h["trace"].id].closed
    THEN Write(d, fo[h["trace"].id].path, <<ExitLine>>)
    ELSE d

(***************************************************************************)
(* The lines an engine operation logs, in order.  error is the error the   *)
(* body raised ("none" if it completed): load_entity and verify_entity log *)
(* no reply when the status cannot be decoded.                             *)
(***************************************************************************)
OpLines(op, entity, error) ==
    CASE op = "get_json_from_label" ->
            <<CommandLine(<<"GET_JSON_FROM_LABEL">>), ReplyLine>>
      [] op = "set_json_to_label" ->
            <<CommandLine(<<"SET_JSON_TO_LABEL">>), ReplyLine>>
      [] op = "load_entity" ->
            <<CommandLine(<<"LOAD_ENTITY", entity>>)>>
                \o (IF error = "none" THEN <<ReplyLine>> ELSE <<>>)
      [] op = "verify_entity" ->
            <<CommandLine(<<"VERIFY_ENTITY">>)>>
                \o (IF error = "none" THEN <<ReplyLine>> ELSE <<>>)
      [] op = "store_entity" ->
            <<CommandLine(<<"STORE_ENTITY">>), ReplyLine>>
      [] op = "destroy_entity" ->
            <<CommandLine(<<"DESTROY_ENTITY">>), ReplyLine>>
      [] op = "execute_entity_json" ->
            <<TimeLine("EXECUTION START"),
              CommandLine(<<"EXECUTE_ENTITY_JSON">>),
              TimeLine("EXECUTION STOP"), ReplyLine>>
      [] op \in {"get_version_string", "get_concurrency_type_string"} ->
            <<NoteLine, BlankLine>>
      [] OTHER -> <<>>

(***************************************************************************)
(* The text of the command lines.  Texts are tuples of characters.         *)
(* escape_double_quotes is str.replace: every double quote becomes a       *)
(* backslash and a double quote.  Each operation that logs a command       *)
(* builds it with a format string of its own.                              *)
(***************************************************************************)
DQuote == "\""
Backslash == "\\"
RECURSIVE EscapeDoubleQuotes(_)
EscapeDoubleQuotes(s) ==
    IF s = <<>> THEN <<>>
    ELSE (IF Head(s) = DQuote THEN <<Backslash, DQuote>> ELSE <<Head(s)>>)
            \o EscapeDoubleQuotes(Tail(s))
InQuotes(s) == <<DQuote>> \o s \o <<DQuote>>
\* str(b).lower()
BoolLower(b) == IF b THEN <<"t", "r", "u", "e">> ELSE <<"f", "a", "l", "s", "e">>
Sp == <<" ">>

CommandText(op, p) ==
    CASE op = "get_json_from_label" ->
            <<"G", "E", "T", "_", "J", "S", "O", "N", "_", "F", "R", "O", "M", "_", "L", "A", "B", "E", "L">> \o Sp
                \o InQuotes(EscapeDoubleQuotes(p.handle)) \o Sp
                \o InQuotes(EscapeDoubleQuotes(p.label))
      [] op = "set_json_to_label" ->
            <<"S", "E", "T", "_", "J", "S", "O", "N", "_", "T", "O", "_", "L", "A", "B", "E", "L">> \o Sp
                \o InQuotes(EscapeDoubleQuotes(p.handle)) \o Sp
                \o InQuotes(EscapeDoubleQuotes(p.label)) \o Sp \o p.json
      [] op = "load_entity" ->
            <<"L", "O", "A", "D", "_", "E", "N", "T", "I", "T", "Y">> \o Sp
                \o InQuotes(EscapeDoubleQuotes(p.handle)) \o Sp
                \o InQuotes(EscapeDoubleQuotes(p.amlg_path)) \o Sp
                \o BoolLower(p.persist) \o Sp
                \o BoolLower(p.contained) \o Sp
                \o InQuotes(p.write_log) \o Sp \o InQuotes(p.print_log)
      [] op = "verify_entity" ->
            <<"V", "E", "R", "I", "F", "Y", "_", "E", "N", "T", "I", "T", "Y">> \o Sp
                \o InQuotes(EscapeDoubleQuotes(p.amlg_path))
      [] op = "store_entity" ->
            <<"S", "T", "O", "R", "E", "_", "E", "N", "T", "I", "T", "Y">> \o Sp
                \o InQuotes(EscapeDoubleQuotes(p.handle)) \o Sp
                \o InQuotes(EscapeDoubleQuotes(p.amlg_path)) \o Sp
                \o BoolLower(p.persist) \o Sp
                \o BoolLower(p.contained)
      [] op = "destroy_entity" ->
            <<"D", "E", "S", "T", "R", "O", "Y", "_", "E", "N", "T", "I", "T", "Y">> \o Sp
                \o InQuotes(EscapeDoubleQuotes(p.handle))
      [] op = "execute_entity_json" ->
            <<"E", "X", "E", "C", "U", "T", "E", "_", "E", "N", "T", "I", "T", "Y", "_", "J", "S", "O", "N">> \o Sp
                \o InQuotes(EscapeDoubleQuotes(p.handle)) \o Sp
                \o InQuotes(EscapeDoubleQuotes(p.label)) \o Sp \o p.json

\* The operations that log a command, and the parameters given to them:
\* texts with and without double quotes, and the two flags of load_entity
\* (persist, load_contained) and store_entity (update_persistence_location,
\* store_contained).
CommandOps ==
    {"get_json_from_label", "set_json_to_label", "load_entity",
     "verify_entity", "store_entity", "destroy_entity", "execute_entity_json"}
Texts == {<<"a">>, <<DQuote>>, <<"a", DQuote, "b">>}
CommandParams ==
    [handle : Texts, label : Texts, amlg_path : Texts, json : Texts,
     write_log : Texts, print_log : Texts,
     persist : BOOLEAN, contained : BOOLEAN]
NoCommand == [op |-> "none", logged |-> FALSE]

\* File names given to reset_trace, and to the constructor.
TraceNames == {<<"t">>, <<"t", ".", "1">>}
InitTraceNames == {<<"t">>}
\* The arguments of the constructor that concern the trace.
DefaultArgs ==
    [trace |-> FALSE, append_trace_file |-> FALSE,
     execution_trace_file |-> <<"e", "x", "e", "c", "u", "t", "i", "o", "n", ".", "t", "r", "a", "c", "e">>]
NoArgs == [library_path |-> PyNone, library_postfix |-> PyNone, arch |-> PyNone]
EntityHandles == {"a", "b"}

VARIABLES
    gc_interval,    \* the gc_interval argument given at construction
    mgr,            \* attributes of the CAPIScopeManager instance
    stack,          \* the with-blocks in progress, innermost last
    collects,       \* number of gc.collect() calls made by _gc
    exits,          \* number of times the finally block of capi_scope ran
    last,           \* the most recent engine operation and what it did
    env,            \* what platform.system/machine report, and the files on disk
    res,            \* the most recent call of _get_library_path: arguments, result
    phase,          \* the Amalgam instance: "new", "failed", "live" or "deleted"
    args,           \* the trace arguments given to the constructor
    handle,         \* attributes of the Amalgam instance
    disk,           \* the trace directory: path -> lines of the file
    fobjs,          \* the file objects opened for the trace, in order
    n_traced,       \* engine operations invoked while a trace was open
    load_logged,    \* the most recent LOAD_ENTITY line logged, or None
    cmd             \* a command line being formatted: parameters, text

vars == <<gc_interval, mgr, stack, collects, exits, last, env, res,
          phase, args, handle, disk, fobjs, n_traced, load_logged, cmd>>
scopeVars == <<gc_interval, mgr, stack, collects, exits, last>>
traceVars == <<phase, args, handle, disk, fobjs, n_traced, load_logged, cmd>>

NoOp == [op |-> "none", ptrs |-> <<>>, body |-> "none", observed |-> "none"]

\* An instance constructed with the default trace arguments on the host: no
\* trace, an empty trace directory.
NoDisk == [f \in {} |-> <<>>]
DefaultHandle == AmalgamInit(DefaultArgs, HostEnv, NoArgs, NoDisk, <<>>, TRUE)
InitDefaultHandle ==
    /\ phase = DefaultHandle.phase
    /\ args = DefaultArgs
    /\ handle = DefaultHandle.handle
    /\ disk = DefaultHandle.disk
    /\ fobjs = DefaultHandle.fobjs
    /\ n_traced = 0
    /\ load_logged = PyNone

Init ==
    /\ gc_interval \in IntervalArgs
    /\ mgr = ManagerInit(gc_interval)
    /\ stack = <<>>
    /\ collects = 0
    /\ exits = 0
    /\ last = NoOp
    /\ env = HostEnv
    /\ res = NoCall
    /\ InitDefaultHandle
    /\ cmd = NoCommand

Top == stack[Len(stack)]
SetTop(f) == [stack EXCEPT ![Len(stack)] = f]
OpenScopes == Cardinality({i \in 1..Len(stack) : stack[i].pc = "body"})

(***************************************************************************)
(* capi_scope up to its yield: a fresh _Vars object referenced by the      *)
(* generator's local scope_vars and, when the with statement has an        *)
(* "as" target, by the caller's variable.                                  *)
(***************************************************************************)
ScopeEnter(bind) ==
    /\ Len(stack) < MaxDepth
    /\ stack # <<>> => Top.pc = "body"
    /\ exits + OpenScopes < MaxExits
    /\ stack' = Append(stack,
           [cls |-> "_Vars", attrs |-> {}, pc |-> "body", body |-> "none",
            observed |-> "none",
            refs |-> {"scope_vars"} \cup (IF bind THEN {"scope"} ELSE {})])
    /\ UNCHANGED <<gc_interval, mgr, collects, exits, last, env, res, traceVars>>

\* The body assigns an attribute on the scope object (scope.handle_buf = ...).
Register(name) ==
    /\ stack # <<>>
    /\ Top.pc = "body"
    /\ "scope" \in Top.refs
    /\ name \notin Top.attrs
    /\ stack' = SetTop([Top EXCEPT !.attrs = @ \cup {name}])
    /\ UNCHANGED <<gc_interval, mgr, collects, exits, last, env, res, traceVars>>

(***************************************************************************)
(* The body ends (normally or by raising err) and the finally block runs:  *)
(* del scope_vars removes the generator's reference only; the _Vars object *)
(* and what was assigned on it live on while the caller's variable refers  *)
(* to it.  Then _gc() runs.                                                *)
(***************************************************************************)
ScopeExit(err) ==
    /\ stack # <<>>
    /\ Top.pc = "body"
    /\ Top.cls = "_Vars"
    /\ LET f == ScopeFinally(mgr, err)
           refs == Top.refs \ {"scope_vars"}
       IN  /\ stack' = SetTop([Top EXCEPT
                          !.refs = refs,
                          !.attrs = IF refs = {} THEN {} ELSE @,
                          !.pc = "exited",
                          !.body = err,
                          !.observed = f.observed])
           /\ mgr' = f.mgr
           /\ collects' = collects + (IF f.collected THEN 1 ELSE 0)
    /\ exits' = exits + 1
    /\ UNCHANGED <<gc_interval, last, env, res, traceVars>>

BodyReturn == ScopeExit("none")

BodyRaise == \E err \in BodyErrors : ScopeExit(err)

(***************************************************************************)
(* CAPIScope (c_api_scope.py), the scope class that is its own context     *)
(* manager: __enter__ returns the object itself, __exit__ deletes every    *)
(* attribute assigned on it and calls gc.collect() (a call that is not     *)
(* paced by the manager and not counted in collects), and lets the body's  *)
(* error through.                                                          *)
(***************************************************************************)
CAPIScopeEnter ==
    /\ Len(stack) < MaxDepth
    /\ stack # <<>> => Top.pc = "body"
    /\ stack' = Append(stack,
           [cls |-> "CAPIScope", attrs |-> {}, pc |-> "body", body |-> "none",
            observed |-> "none", refs |-> {"scope"}])
    /\ UNCHANGED <<gc_interval, mgr, collects, exits, last, env, res, traceVars>>

HardDeleteAttrs(frame) == [frame EXCEPT !.attrs = {}]

CAPIScopeExit ==
    \E err \in {"none"} \cup BodyErrors :
        /\ stack # <<>>
        /\ Top.pc = "body"
        /\ Top.cls = "CAPIScope"
        /\ stack' = SetTop([HardDeleteAttrs(Top) EXCEPT
                              !.pc = "exited", !.body = err, !.observed = err])
        /\ UNCHANGED <<gc_interval, mgr, collects, exits, last, env, res, traceVars>>

\* The caller's variable goes away (its function returns or the error is
\* handled): nothing refers to the _Vars object any more.
ScopeRelease ==
    /\ stack # <<>>
    /\ Top.pc = "exited"
    /\ stack' = SubSeq(stack, 1, Len(stack) - 1)
    /\ UNCHANGED <<gc_interval, mgr, collects, exits, last, env, res, traceVars>>

(***************************************************************************)
(* Native strings.  A pointer returned by the library is a record of what  *)
(* it points at, of how many times DeleteString was called on it, of       *)
(* whether its bytes were copied ("live": before any DeleteString,         *)
(* "dangling": after one) and of whether the caller owns it (the strings   *)
(* read through char_p_to_bytes) or the library keeps it (string lists).   *)
(***************************************************************************)
NativePtr(kind) ==
    [kind |-> kind, frees |-> 0, copied |-> "no", owned |-> TRUE]
BorrowedPtr(kind) == [NativePtr(kind) EXCEPT !.owned = FALSE]
\* cast(p, c_char_p).value, or indexing an array of c_char_p.
CopyBytes(p) ==
    [p EXCEPT !.copied = IF p.frees = 0 THEN "live" ELSE "dangling"]
\* self.amlg.DeleteString(p)
DeleteString(p) == [p EXCEPT !.frees = @ + 1]

\* Amalgam.char_p_to_bytes on the i-th pointer: copy the bytes, then call
\* DeleteString on the pointer (null or not), then return the copy.
CharPToBytes_no_delete(ptrs, i) == ptrs

CharPToBytes(ptrs, i) == [ptrs EXCEPT ![i] = DeleteString(CopyBytes(@))]

\* bytes.decode("utf-8") on what char_p_to_bytes returned for a pointer.
DecodeError(ptr) ==
    CASE ptr.kind = "null" -> DecodeNoneError
      [] ptr.kind = "bad" -> UnicodeDecodeError
      [] OTHER -> "none"

(***************************************************************************)
(* LoadEntityStatus.__init__ on a status record <<message, version>>:      *)
(* message is released and decoded, then version is released and decoded;  *)
(* a failing decode leaves the rest undone.                                *)
(***************************************************************************)
LoadEntityStatusInit(ptrs) ==
    LET p1 == CharPToBytes(ptrs, 1) IN
    IF DecodeError(ptrs[1]) # "none"
    THEN [ptrs |-> p1, error |-> DecodeError(ptrs[1])]
    ELSE LET p2 == CharPToBytes(p1, 2) IN
         [ptrs |-> p2, error |-> DecodeError(ptrs[2])]

\* The body of an accessor that returns one owned string.
OwnedStringBody(ptrs) == [ptrs |-> CharPToBytes(ptrs, 1), error |-> "none"]

(***************************************************************************)
(* An engine operation whose body runs inside "with capi_scope() as        *)
(* scope": the body, then the finally block, then the return to the        *)
(* caller, which ends the operation's local variables.                     *)
(***************************************************************************)
\* Operations and resets performed on the open trace so far.
TraceSteps == n_traced + (IF fobjs = <<>> THEN 0 ELSE Len(fobjs) - 1)

\* What an operation (entity: the entity handle given to load_entity) does
\* to the trace.
LogOp(op, entity, error) ==
    LET lines == OpLines(op, entity, error) IN
    /\ phase = "live"
    /\ Tracing(handle) => TraceSteps < MaxTraceSteps
    /\ disk' = IF error \in TraceIOErrors THEN disk
               ELSE LogWrite(handle, disk, fobjs, lines)
    /\ n_traced' = IF Tracing(handle) THEN n_traced + 1 ELSE n_traced
    /\ load_logged' = IF /\ Tracing(handle)
                         /\ op = "load_entity"
                         /\ error \notin TraceIOErrors
                      THEN lines[1] ELSE load_logged
    /\ UNCHANGED <<phase, args, handle, fobjs, cmd>>

(***************************************************************************)
(* The body as it ends when the first trace write of the operation raises  *)
(* werr.  The scoped operations log before the library is called, so       *)
(* nothing has been received when the write raises; get_version_string and *)
(* get_concurrency_type_string log after the string was released.          *)
(***************************************************************************)
UnscopedOps == {"get_version_string", "get_concurrency_type_string"}
Interrupted(op, body, werr) ==
    IF werr = "none" THEN body
    ELSE IF op \in UnscopedOps THEN [ptrs |-> body.ptrs, error |-> werr]
    ELSE [ptrs |-> <<>>, error |-> werr]
Recorded(op, entity, body) ==
    Interrupted(op, body,
        IF phase = "live"
        THEN WriteError(handle, fobjs, OpLines(op, entity, body.error))
        ELSE "none")

RunInScope(op, body) ==
    /\ stack = <<>>
    /\ exits < MaxExits
    /\ LET f == ScopeFinally(mgr, body.error) IN
       /\ mgr' = f.mgr
       /\ collects' = collects + (IF f.collected THEN 1 ELSE 0)
       /\ last' = [op |-> op, ptrs |-> body.ptrs, body |-> body.error,
                   observed |-> f.observed]
    /\ exits' = exits + 1
    /\ UNCHANGED <<gc_interval, stack, env, res>>

GetJsonFromLabel ==
    \E k \in PtrKinds :
        LET body == Recorded("get_json_from_label", "",
                             OwnedStringBody(<<NativePtr(k)>>)) IN
        /\ RunInScope("get_json_from_label", body)
        /\ LogOp("get_json_from_label", "", body.error)

ExecuteEntityJson ==
    \E k \in PtrKinds :
        LET body == Recorded("execute_entity_json", "",
                             OwnedStringBody(<<NativePtr(k)>>)) IN
        /\ RunInScope("execute_entity_json", body)
        /\ LogOp("execute_entity_json", "", body.error)

LoadEntity ==
    \E m \in PtrKinds, v \in PtrKinds, entity \in EntityHandles :
        LET body == Recorded("load_entity", entity,
                LoadEntityStatusInit(<<NativePtr(m), NativePtr(v)>>)) IN
        /\ RunInScope("load_entity", body)
        /\ LogOp("load_entity", entity, body.error)

VerifyEntity ==
    \E m \in PtrKinds, v \in PtrKinds :
        LET body == Recorded("verify_entity", "",
                LoadEntityStatusInit(<<NativePtr(m), NativePtr(v)>>)) IN
        /\ RunInScope("verify_entity", body)
        /\ LogOp("verify_entity", "", body.error)

\* Operations whose body receives no string from the library.
PlainScopedOps ==
    {"set_json_to_label", "store_entity", "destroy_entity",
     "set_number_value", "get_number_value", "set_string_value",
     "set_string_list"}

PlainScopedOp ==
    \E op \in PlainScopedOps :
        LET body == Recorded(op, "", [ptrs |-> <<>>, error |-> "none"]) IN
        /\ RunInScope(op, body)
        /\ LogOp(op, "", body.error)

(***************************************************************************)
(* get_entities, get_string_value and get_string_list: the library returns *)
(* a pointer to an array of strings, <<array, element>> here; the body     *)
(* copies the element out of the array and calls DeleteString on neither.  *)
(* get_entities decodes the element it copied.                             *)
(***************************************************************************)
ListAccessors == {"get_entities", "get_string_value", "get_string_list"}

BorrowedListBody(op, ptrs) ==
    [ptrs |-> [ptrs EXCEPT ![2] = CopyBytes(@)],
     error |-> IF op = "get_entities" THEN DecodeError(ptrs[2]) ELSE "none"]

ListAccessor ==
    \E op \in ListAccessors, k \in PtrKinds :
        LET body == BorrowedListBody(op, <<BorrowedPtr("list"), BorrowedPtr(k)>>)
        IN  /\ RunInScope(op, body)
            /\ LogOp(op, "", body.error)

\* get_version_string and get_concurrency_type_string open no scope.
RunUnscoped(op, body) ==
    /\ stack = <<>>
    /\ last' = [op |-> op, ptrs |-> body.ptrs, body |-> body.error,
                observed |-> body.error]
    /\ UNCHANGED <<gc_interval, mgr, stack, collects, exits, env, res>>

GetVersionString ==
    \E k \in PtrKinds :
        LET body == Recorded("get_version_string", "",
                             OwnedStringBody(<<NativePtr(k)>>)) IN
        /\ RunUnscoped("get_version_string", body)
        /\ LogOp("get_version_string", "", body.error)

GetConcurrencyTypeString ==
    \E k \in PtrKinds :
        LET body == Recorded("get_concurrency_type_string", "",
                             OwnedStringBody(<<NativePtr(k)>>)) IN
        /\ RunUnscoped("get_concurrency_type_string", body)
        /\ LogOp("get_concurrency_type_string", "", body.error)

Next ==
    \/ \E bind \in BOOLEAN : ScopeEnter(bind)
    \/ \E name \in AttrNames : Register(name)
    \/ BodyReturn
    \/ BodyRaise
    \/ ScopeRelease
    \/ CAPIScopeEnter
    \/ CAPIScopeExit
    \/ GetJsonFromLabel
    \/ ExecuteEntityJson
    \/ LoadEntity
    \/ VerifyEntity
    \/ PlainScopedOp
    \/ ListAccessor
    \/ GetVersionString
    \/ GetConcurrencyTypeString

Spec == Init /\ [][Next]_vars

(***************************************************************************)
(* Library resolution on its own: any environment and any arguments, then  *)
(* the call of the class method _get_library_path on them.                 *)
(***************************************************************************)
InitResolve ==
    /\ gc_interval = PyNone
    /\ mgr = ManagerInit(gc_interval)
    /\ stack = <<>>
    /\ collects = 0
    /\ exits = 0
    /\ last = NoOp
    /\ env \in [system : Systems, machine : Machines, files : FileSystems]
    /\ res \in [called : {FALSE}, library_path : PathArgs,
                library_postfix : PostfixArgs, arch : ArchArgs]
    /\ InitDefaultHandle
    /\ cmd = NoCommand

ResolveCall ==
    /\ ~res.called
    /\ res' = [called |-> TRUE, library_path |-> res.library_path,
               library_postfix |-> res.library_postfix, arch |-> res.arch,
               out |-> GetLibraryPath(env.files, env.system, env.machine,
                                      res.library_path, res.library_postfix,
                                      res.arch)]
    /\ UNCHANGED <<env, scopeVars, traceVars>>

NextResolve == ResolveCall

SpecResolve == InitResolve /\ [][NextResolve]_vars

(***************************************************************************)
(* The life of one Amalgam instance with its trace: construction on the    *)
(* host with any trace arguments and any trace directory, then engine      *)
(* operations and reset_trace, then the end of the instance.               *)
(***************************************************************************)
\* The pacing of the scope manager is explored in Spec; here the handle is
\* made with an interval under which its operations return.
TraceIntervalArgs == {PyInt(1)}
\* Arguments with which resolution succeeds on the host, fails for a missing
\* file, and fails for a postfix without its dash.
TraceResolveArgs ==
    {NoArgs,
     [NoArgs EXCEPT !.library_path = PyStr(<<"~", "/", "a", "m", "a", "l", "g", "a", "m", ".", "s", "o">>)],
     [NoArgs EXCEPT !.library_postfix = PyStr(<<"m", "t">>)]}
TracePaths == {PathJoin(TraceDir, n) : n \in TraceNames}

InitTrace ==
    /\ gc_interval \in TraceIntervalArgs
    /\ mgr = NoAttrs
    /\ stack = <<>>
    /\ collects = 0
    /\ exits = 0
    /\ last = NoOp
    /\ env = HostEnv
    /\ res \in {[called |-> FALSE, library_path |-> r.library_path,
                 library_postfix |-> r.library_postfix, arch |-> r.arch] :
                    r \in TraceResolveArgs}
    /\ phase = "new"
    /\ cmd = NoCommand
    /\ args \in [trace : BOOLEAN, append_trace_file : BOOLEAN,
                 execution_trace_file : InitTraceNames]
    /\ handle = NoAttrs
    /\ disk \in UNION {[S -> {<<OldLine>>}] : S \in SUBSET TracePaths}
    /\ fobjs = <<>>
    /\ n_traced = 0
    /\ load_logged = PyNone

\* Amalgam(...): __init__ as a whole; the scope manager is made last.
Construct ==
    \E loads \in BOOLEAN :
        /\ phase = "new"
        /\ LET r == AmalgamInit(args, env, res, disk, fobjs, loads) IN
           /\ phase' = r.phase
           /\ handle' = r.handle
           /\ disk' = r.disk
           /\ fobjs' = r.fobjs
           /\ res' = [called |-> TRUE, library_path |-> res.library_path,
                      library_postfix |-> res.library_postfix,
                      arch |-> res.arch, out |-> r.out]
           /\ mgr' = IF r.phase = "live" THEN ManagerInit(gc_interval) ELSE mgr
        /\ UNCHANGED <<gc_interval, stack, collects, exits, last, env, args,
                       n_traced, load_logged, cmd>>

ResetTrace ==
    \E file \in TraceNames, opens \in BOOLEAN :
        /\ phase = "live"
        /\ stack = <<>>
        /\ Tracing(handle) => TraceSteps < MaxTraceSteps
        /\ LET r == ResetTraceSink(handle, disk, fobjs, file, opens) IN
           /\ handle' = r.handle
           /\ disk' = r.disk
           /\ fobjs' = r.fobjs
           /\ last' = [op |-> "reset_trace", ptrs |-> <<>>, body |-> r.error,
                       observed |-> r.error]
        /\ UNCHANGED <<gc_interval, mgr, stack, collects, exits, env, res,
                       phase, args, n_traced, load_logged, cmd>>

(***************************************************************************)
(* An operation whose first write to the open trace file is refused by the *)
(* operating system: the OSError leaves _log_execution (_log_time,         *)
(* _log_comment) and the operation.                                        *)
(***************************************************************************)
RefusedWrite ==
    \E op \in CommandOps \cup UnscopedOps :
        LET body == Interrupted(op,
                        IF op \in UnscopedOps
                        THEN OwnedStringBody(<<NativePtr("utf8")>>)
                        ELSE [ptrs |-> <<>>, error |-> "none"],
                        "OSError")
        IN  /\ phase = "live"
            /\ Tracing(handle)
            /\ ~fobjs[handle["trace"].id].closed
            /\ IF op \in UnscopedOps THEN RunUnscoped(op, body)
               ELSE RunInScope(op, body)
            /\ LogOp(op, "", body.error)

\* The instance is collected: __del__ runs; the runtime may then finalize the
\* file object the instance referred to, which closes it.
Del ==
    \E finalized \in BOOLEAN :
        /\ phase \in {"live", "failed"}
        /\ stack = <<>>
        /\ disk' = AmalgamDel(handle, disk, fobjs)
        /\ fobjs' = IF finalized
                    THEN [i \in DOMAIN fobjs |-> [fobjs[i] EXCEPT !.closed = TRUE]]
                    ELSE fobjs
        /\ phase' = "deleted"
        /\ last' = [op |-> "__del__", ptrs |-> <<>>, body |-> "none",
                    observed |-> "none"]
        /\ UNCHANGED <<gc_interval, mgr, stack, collects, exits, env,
                       res, args, handle, n_traced, load_logged, cmd>>

NextTrace ==
    \/ Construct
    \/ ResetTrace
    \/ RefusedWrite
    \/ Del
    \/ GetJsonFromLabel
    \/ ExecuteEntityJson
    \/ LoadEntity
    \/ VerifyEntity
    \/ PlainScopedOp
    \/ ListAccessor
    \/ GetVersionString
    \/ GetConcurrencyTypeString

SpecTrace == InitTrace /\ [][NextTrace]_vars

(***************************************************************************)
(* The formatting of one command line: the operation and its parameters    *)
(* are given, _log_execution receives the text the operation built.        *)
(***************************************************************************)
InitFormat ==
    /\ gc_interval = PyNone
    /\ mgr = ManagerInit(gc_interval)
    /\ stack = <<>>
    /\ collects = 0
    /\ exits = 0
    /\ last = NoOp
    /\ env = HostEnv
    /\ res = NoCall
    /\ InitDefaultHandle
    /\ cmd \in {[op |-> op, params |-> p, logged |-> FALSE] :
                    op \in CommandOps, p \in CommandParams}

LogExecution ==
    /\ ~cmd.logged
    /\ cmd' = [op |-> cmd.op, params |-> cmd.params, logged |-> TRUE,
               text |-> CommandText(cmd.op, cmd.params)]
    /\ UNCHANGED <<env, res, scopeVars, phase, args, handle, disk, fobjs,
                   n_traced, load_logged>>

NextFormat == LogExecution

SpecFormat == InitFormat /\ [][NextFormat]_vars

(***************************************************************************)
(* Properties of the scope manager and of the engine operations (Spec).    *)
(***************************************************************************)
\* The scopes opened with capi_scope that have exited.
ExitedFrames ==
    {i \in 1..Len(stack) : stack[i].pc = "exited" /\ stack[i].cls = "_Vars"}
ScopedOps ==
    PlainScopedOps \cup ListAccessors
        \cup {"get_json_from_label", "execute_entity_json",
              "load_entity", "verify_entity"}
IntervalIs(n) == gc_interval = PyInt(n)

\* C1: with gc_interval = None, a scope whose body completed normally exits
\* without an error of its own, and an engine operation built on a scope
\* whose body completed returns to the caller without an error.
C1_ScopeExitRaisesNothing ==
    gc_interval = PyNone =>
        /\ \A i \in ExitedFrames :
              stack[i].body = "none" => stack[i].observed = "none"
        /\ (last.op \in ScopedOps /\ last.body = "none")
              => last.observed = "none"

\* C2 as stated: with interval N >= 0, gc.collect has run exactly once per
\* N+1 scope exits, on exits number N+1, 2(N+1), ...
C2_OnePassPerNPlusOneExits ==
    (IsInt(gc_interval) /\ gc_interval.val >= 0)
        => collects = exits \div (gc_interval.val + 1)

\* C2 amended: with interval N >= 0, gc.collect has run exactly once per
\* max(1, N) scope exits, on exits number max(1,N), 2*max(1,N), ... and on
\* no other exit.
C2_OnePassPerIntervalExits ==
    (IsInt(gc_interval) /\ gc_interval.val >= 0)
        => collects = exits \div Max(1, gc_interval.val)

C2_Witness == IntervalIs(2) /\ exits = 5 /\ collects = 2

\* C3: with no interval configured, gc.collect is never run, whatever the
\* number of scope exits and however the bodies ended.
C3_NoPassWithoutInterval == gc_interval = PyNone => collects = 0

C3_Witness ==
    /\ gc_interval = PyNone
    /\ exits >= 3
    /\ \E i \in ExitedFrames : stack[i].body \in BodyErrors

\* C4: with interval 0, gc.collect runs at every scope exit: the number of
\* passes equals the number of scope exits.
C4_PassAtEveryExit == IntervalIs(0) => collects = exits

C4_Witness ==
    /\ IntervalIs(0)
    /\ exits >= 3
    /\ last.op \in ScopedOps
    /\ \E i \in ExitedFrames : stack[i].body \in BodyErrors

\* C5: whatever the pacing configuration, when the body of a scope raises,
\* the exit step runs and the caller then observes the body's own error.
C5_BodyErrorPropagates ==
    \A i \in ExitedFrames :
        stack[i].body \in BodyErrors => stack[i].observed = stack[i].body

\* C6: after a scope exits, by success or failure, nothing the body
\* registered on the scope object is still registered on it.
C6_NoRegisteredBuffersAfterExit ==
    \A i \in ExitedFrames : stack[i].attrs = {}

\* C7: every owned string pointer an operation received from the library has
\* been passed to DeleteString exactly once when the operation ends.
C7_DeleteStringExactlyOnce ==
    \A i \in 1..Len(last.ptrs) : last.ptrs[i].owned => last.ptrs[i].frees = 1

(***************************************************************************)
(* Properties of library resolution (SpecResolve).                         *)
(***************************************************************************)
NoPathCall == res.called /\ ~Truthy(res.library_path)
ReqOs == Lower(env.system)
ReqArch == EffectiveArch(env.machine, res.arch)
StatedOses == {T_windows, T_darwin, T_linux}
StatedArchs(os) ==
    CASE os = T_windows -> {T_amd64}
      [] os = T_darwin -> {T_amd64, T_arm64}
      [] os = T_linux -> {T_amd64, T_arm64, T_arm64_8a}
StatedExt(os) ==
    CASE os = T_windows -> T_dll
      [] os = T_darwin -> T_dylib
      [] os = T_linux -> T_so
StatedPairSupported == ReqOs \in StatedOses /\ ReqArch \in StatedArchs(ReqOs)
VariantSupplied == res.library_postfix.type = "str" /\ res.library_postfix.val # <<>>
VariantLacksDash == VariantSupplied /\ res.library_postfix.val[1] # "-"
StatedVariant ==
    IF VariantSupplied THEN res.library_postfix.val
    ELSE IF ReqArch = T_arm64_8a THEN T_st ELSE T_mt
StatedPath ==
    LibRoot \o <<"/">> \o ReqOs \o <<"/">> \o ReqArch \o <<"/">>
        \o T_amalgam \o StatedVariant \o <<".">> \o StatedExt(ReqOs)
ReturnsStatedPath ==
    /\ res.out.kind = "ok"
    /\ res.out.path = StatedPath
    /\ res.out.postfix = PyStr(StatedVariant)
FailsAs(class, cause) == res.out = Error(class, cause)

\* C8 as stated: with no explicit path, for every supported (os, arch) pair
\* and every variant, supplied or defaulted, resolution returns
\* <library-root>/<os>/<arch>/amalgam<variant>.<ext> and that variant.
C8_SupportedPairReturnsPath ==
    (NoPathCall /\ StatedPairSupported) => ReturnsStatedPath

\* C8 amended: the same, provided the supplied variant, if any, begins with
\* '-' and a file exists at that path.
C8_SupportedPairReturnsExistingPath ==
    (NoPathCall /\ StatedPairSupported /\ ~VariantLacksDash
        /\ StatedPath \in env.files) => ReturnsStatedPath

C8_Witness ==
    /\ NoPathCall
    /\ res.arch = PyStr(T_arm64_8a)
    /\ ~VariantSupplied
    /\ res.out.kind = "ok"
    /\ res.out.postfix = PyStr(T_st)

\* C9 as stated: with no explicit path, a system outside {windows, darwin,
\* linux} fails as unsupported platform whatever the architecture, and a
\* supported system with an architecture outside its set fails as
\* unsupported architecture; neither returns a path.
C9_UnsupportedFailsByCause ==
    NoPathCall =>
        /\ ReqOs \notin StatedOses => FailsAs("RuntimeError", "platform")
        /\ (ReqOs \in StatedOses /\ ReqArch \notin StatedArchs(ReqOs))
              => FailsAs("RuntimeError", "architecture")

\* C9 amended: the same, provided the supplied variant, if any, begins with
\* '-' (otherwise the variant format error comes first).
C9_UnsupportedFailsByCauseWellFormed ==
    (NoPathCall /\ ~VariantLacksDash) =>
        /\ ReqOs \notin StatedOses => FailsAs("RuntimeError", "platform")
        /\ (ReqOs \in StatedOses /\ ReqArch \notin StatedArchs(ReqOs))
              => FailsAs("RuntimeError", "architecture")

C9_Witness ==
    /\ NoPathCall
    /\ ReqOs = T_windows
    /\ ReqArch = T_arm64
    /\ FailsAs("RuntimeError", "architecture")

\* C10: a non-empty supplied variant that does not begin with '-' makes
\* resolution fail with ValueError in every case (explicit path or not, any
\* platform, architecture and files); an empty or absent variant never
\* triggers that error.
C10_MalformedVariantAlwaysValueError ==
    res.called =>
        /\ VariantLacksDash => FailsAs("ValueError", "library_postfix")
        /\ ~VariantSupplied
              => ~(res.out.kind = "error" /\ res.out.class = "ValueError")

C10_Witness ==
    /\ res.called
    /\ Truthy(res.library_path)
    /\ VariantLacksDash
    /\ ExpandUser(res.library_path.val) \notin env.files
    /\ FailsAs("ValueError", "library_postfix")

StatedDir == LibRoot \o <<"/">> \o ReqOs \o <<"/">> \o ReqArch
\* The assembled path was reached and no file exists there.
AssembledPathMissing ==
    /\ NoPathCall
    /\ StatedPairSupported
    /\ ~VariantLacksDash
    /\ StatedPath \notin env.files
Discoverable == GetAllowedPostfixes(env.files, StatedDir)
VariantDiscoverable == PyStr(StatedVariant) \in Discoverable

\* C11 as stated: with no explicit path and no file at the assembled path,
\* resolution fails as variant-not-found (RuntimeError) if the requested
\* variant is not among the discoverable ones, and as library-not-found
\* (FileNotFoundError) only when it is among them.
C11_MissingPathErrorByDiscoverable ==
    AssembledPathMissing =>
        /\ ~VariantDiscoverable => FailsAs("RuntimeError", "library_postfix")
        /\ VariantDiscoverable => FailsAs("FileNotFoundError", "default")

\* C11 amended: variant-not-found is raised if and only if some variant is
\* discoverable in the directory and the requested one is not among them;
\* library-not-found is raised otherwise, also when nothing is discoverable.
C11_MissingPathErrorByNonEmptyDiscoverable ==
    AssembledPathMissing =>
        IF Discoverable # {} /\ ~VariantDiscoverable
        THEN FailsAs("RuntimeError", "library_postfix")
        ELSE FailsAs("FileNotFoundError", "default")

C11_Witness ==
    /\ AssembledPathMissing
    /\ VariantDiscoverable
    /\ FailsAs("FileNotFoundError", "default")

PathCall == res.called /\ Truthy(res.library_path)
GivenPath == ExpandUser(res.library_path.val)
GivenVariant == ParsePostfix(PathName(res.library_path.val))
WarningEmitted == "warned" \in DOMAIN res.out /\ res.out.warned
VariantDiffers == VariantSupplied /\ res.library_postfix # GivenVariant
ReturnsGivenPath ==
    /\ res.out.kind = "ok"
    /\ res.out.path = GivenPath
    /\ res.out.postfix = GivenVariant
LibraryNotFoundAtGivenPath ==
    /\ res.out.kind = "error"
    /\ res.out.class = "FileNotFoundError"
    /\ res.out.cause = "library_path"

\* C12 as stated: with an explicit path the effective variant is the one
\* parsed from the path's file name; a compatibility warning is emitted if
\* and only if the caller supplied a non-empty variant that differs from the
\* parsed one; the warning does not stop resolution, which returns the path
\* with the parsed variant when the file exists.
C12_WarningIffVariantDiffers ==
    PathCall =>
        /\ res.out.kind = "ok" => res.out.postfix = GivenVariant
        /\ WarningEmitted <=> VariantDiffers
        /\ (WarningEmitted /\ GivenPath \in env.files) => ReturnsGivenPath

\* C12 amended: the same, except that the warning is emitted if and only if
\* the supplied non-empty variant begins with '-' and differs from the parsed
\* one; a variant without the dash fails before any warning.
C12_WarningIffWellFormedVariantDiffers ==
    PathCall =>
        /\ res.out.kind = "ok" => res.out.postfix = GivenVariant
        /\ WarningEmitted <=> (VariantDiffers /\ ~VariantLacksDash)
        /\ (WarningEmitted /\ GivenPath \in env.files) => ReturnsGivenPath

C12_Witness ==
    /\ PathCall
    /\ res.library_postfix = PyStr(T_mt)
    /\ GivenVariant = PyStr(T_st)
    /\ WarningEmitted
    /\ ReturnsGivenPath

\* C13 as stated: with an explicit path, resolution fails as library-not-
\* found exactly when no file exists at that path and otherwise returns the
\* path, whatever the detected platform and architecture.
C13_ExplicitPathFailsIffMissing ==
    PathCall =>
        IF GivenPath \in env.files
        THEN ReturnsGivenPath
        ELSE LibraryNotFoundAtGivenPath

\* C13 amended: the same, provided the supplied variant is absent, empty or
\* begins with '-'; the path is the given one with a leading ~ expanded.
C13_ExplicitPathFailsIffMissingWellFormed ==
    (PathCall /\ ~VariantLacksDash) =>
        IF GivenPath \in env.files
        THEN ReturnsGivenPath
        ELSE LibraryNotFoundAtGivenPath

C13_Witness ==
    /\ PathCall
    /\ ReqOs = T_windows
    /\ ReqArch = T_arm64
    /\ ReturnsGivenPath

(***************************************************************************)
(* Properties of the constructor and of the trace (SpecTrace).             *)
(***************************************************************************)
IsPrefix(a, b) == Len(a) <= Len(b) /\ SubSeq(b, 1, Len(a)) = a
ResolutionFailed == phase = "failed" /\ res.called /\ res.out.kind = "error"
\* The file object the handle writes to, and the lines of its file.
CurrentSink == fobjs[handle["trace"].id]
CurrentLines == disk[CurrentSink.path]
TracingLive == phase = "live" /\ handle["trace"] # PyNone
\* A step that opened a trace file, and the file object it made.
OpensTrace == Len(fobjs') > Len(fobjs)
Opened == fobjs'[Len(fobjs')]

\* C14: when library resolution fails in the constructor, no trace file has
\* been created, opened or written, the instance has no trace and the
\* library has not been loaded.
C14_ResolutionErrorBeforeAnyEffect ==
    ResolutionFailed =>
        /\ fobjs = <<>>
        /\ \A f \in DOMAIN disk : f \in TracePaths /\ disk[f] = <<OldLine>>
        /\ ~HasAttr(handle, "trace")
        /\ ~HasAttr(handle, "amlg")

C14_Witness ==
    /\ ResolutionFailed
    /\ args.trace
    /\ PathJoin(TraceDir, args.execution_trace_file) \notin DOMAIN disk

Suffixed(name, k) == PathJoin(TraceDir, name \o <<".">> \o FormatInt(k))
\* The first unused path in the sequence name, name.1, name.2, ...
FirstUnusedPath(d, name) ==
    IF PathJoin(TraceDir, name) \notin DOMAIN d
    THEN PathJoin(TraceDir, name)
    ELSE Suffixed(name,
            CHOOSE k \in 1..(Cardinality(DOMAIN d) + 1) :
                /\ Suffixed(name, k) \notin DOMAIN d
                /\ \A j \in 1..(k - 1) : Suffixed(name, j) \in DOMAIN d)

\* C15: with append disabled, a trace opened (by the constructor or by
\* reset_trace) under a name that exists is opened at the first unused name
\* of <name>.1, <name>.2, ..., and no step removes or changes the lines a
\* file of the trace directory already holds.
C15_RotationNeverOverwrites ==
    [][~args.append_trace_file =>
          /\ \A f \in DOMAIN disk :
                f \in DOMAIN disk' /\ IsPrefix(disk[f], disk'[f])
          /\ OpensTrace =>
                /\ Opened.path = FirstUnusedPath(disk, Opened.asked)
                /\ Opened.path \notin DOMAIN disk]_vars

C15_Witness ==
    /\ ~args.append_trace_file
    /\ Len(fobjs) = 3
    /\ fobjs[2].asked = fobjs[3].asked
    /\ fobjs[3].path = Suffixed(fobjs[3].asked, 2)

\* C16: after reset_trace on a tracing handle has opened the new trace file,
\* the file starts with the most recent LOAD_ENTITY line logged on this
\* handle if there is one, and is empty otherwise.
C16_ResetReemitsLoadCommand ==
    (TracingLive /\ last.op = "reset_trace" /\ last.observed = "none") =>
        IF load_logged # PyNone
        THEN CurrentLines # <<>> /\ CurrentLines[1] = load_logged
        ELSE CurrentLines = <<>>

\* C17: with append_trace_file true, opening a trace at a path that exists
\* keeps the lines the file held: they are a prefix of its lines afterwards.
C17_AppendKeepsExistingLines ==
    [][(args.append_trace_file /\ OpensTrace /\ Opened.path \in DOMAIN disk)
          => IsPrefix(disk[Opened.path], disk'[Opened.path])]_vars

\* C18: every trace file the handle stopped writing to (replaced by
\* reset_trace, or open when the instance ended) is closed and its last
\* line is EXIT.
C18_StoppedFilesEndWithExit ==
    \A i \in 1..Len(fobjs) :
        (i < Len(fobjs) \/ phase = "deleted") =>
            /\ fobjs[i].closed
            /\ disk[fobjs[i].path] # <<>>
            /\ disk[fobjs[i].path][Len(disk[fobjs[i].path])] = ExitLine

CommandCount(lines) ==
    Cardinality({i \in DOMAIN lines : lines[i].kind = "command"})

\* C19: with tracing enabled, every engine operation invoked (whose trace
\* writes the system accepts) adds exactly one command line to the trace file.
C19_EveryOperationLogsItsCommand ==
    [][(TracingLive /\ n_traced' = n_traced + 1
            /\ last'.body \notin TraceIOErrors) =>
          CommandCount(disk'[CurrentSink.path])
              = CommandCount(CurrentLines) + 1]_vars

\* C20: with tracing disabled, no step creates, opens or writes a trace
\* file, and the trace of a constructed handle stays None.
C20_DisabledTraceIsNoOp ==
    [][~args.trace =>
          /\ disk' = disk
          /\ fobjs' = <<>>
          /\ phase' = "live" => handle'["trace"] = PyNone]_vars

C20_Witness ==
    /\ ~args.trace
    /\ phase = "live"
    /\ last.op = "reset_trace"
    /\ exits > 0

(***************************************************************************)
(* Architecture normalization (SpecResolve).                               *)
(***************************************************************************)
ArchSupplied == res.arch.type = "str" /\ res.arch.val # <<>>
\* x86_64 becomes amd64, a name starting with aarch64 or arm64 becomes arm64.
NormalizedArch(a) ==
    IF a = T_x86_64 THEN T_amd64
    ELSE IF StartsWith(a, T_aarch64) \/ StartsWith(a, T_arm64) THEN T_arm64
    ELSE a
\* The support check and the path are those of architecture a.
ResolvedWithArch(a) ==
    IF a \in StatedArchs(ReqOs)
    THEN /\ ~FailsAs("RuntimeError", "architecture")
         /\ res.out.kind = "ok" =>
                PathParent(res.out.path)
                    = LibRoot \o <<"/">> \o ReqOs \o <<"/">> \o a
    ELSE FailsAs("RuntimeError", "architecture")
NoPathCallOnStatedOs == NoPathCall /\ ReqOs \in StatedOses /\ ~VariantLacksDash

\* C24 as stated: with no explicit path the architecture, detected or
\* supplied by the caller, is normalized before the support check, except
\* that a supplied arm64_8a is kept as given.
C24_ArchNormalizedDetectedOrSupplied ==
    NoPathCallOnStatedOs =>
        ResolvedWithArch(
            IF ArchSupplied
            THEN IF res.arch.val = T_arm64_8a THEN T_arm64_8a
                 ELSE NormalizedArch(res.arch.val)
            ELSE NormalizedArch(Lower(env.machine)))

\* C24 amended: only the detected architecture (platform.machine(), lowered)
\* is normalized; an architecture supplied by the caller is used exactly as
\* given in the support check and in the path.
C24_ArchNormalizedOnlyWhenDetected ==
    NoPathCallOnStatedOs =>
        ResolvedWithArch(
            IF ArchSupplied THEN res.arch.val
            ELSE NormalizedArch(Lower(env.machine)))

C24_Witness ==
    /\ NoPathCallOnStatedOs
    /\ ~ArchSupplied
    /\ Lower(env.machine) \notin {T_arm64, T_aarch64}
    /\ res.out.kind = "ok"
    /\ PathParent(res.out.path) = LibRoot \o <<"/">> \o ReqOs \o <<"/">> \o T_arm64

(***************************************************************************)
(* The pacing counter of the scope manager (Spec).                         *)
(***************************************************************************)
EffectiveInterval == Max(0, gc_interval.val - 1)
OpCount == mgr["_op_count"].val
\* A step in which the finally block of capi_scope ran.
ScopeExitStep == exits' = exits + 1

\* C26: with an int interval, the counter of exits since the last gc.collect
\* stays within 0 .. max(0, gc_interval - 1); every scope exit, nested or
\* with a failed body, either runs gc.collect and leaves the counter at 0 or
\* adds one to the counter without collecting, and nothing else changes it.
C26_PacingCounterInvariant ==
    /\ [](IsInt(gc_interval) => OpCount \in 0..EffectiveInterval)
    /\ [][IsInt(gc_interval) =>
             IF ScopeExitStep
             THEN \/ /\ collects' = collects + 1
                     /\ mgr'["_op_count"].val = 0
                  \/ /\ collects' = collects
                     /\ mgr'["_op_count"].val = OpCount + 1
             ELSE /\ collects' = collects
                  /\ mgr' = mgr]_vars

C26_Witness ==
    /\ IntervalIs(3)
    /\ OpCount = 2
    /\ collects >= 1
    /\ Len(stack) = 2
    /\ stack[1].pc = "body"
    /\ stack[2].pc = "exited"
    /\ stack[2].cls = "_Vars"
    /\ stack[2].body \in BodyErrors

(***************************************************************************)
(* Owned and borrowed native strings (Spec).                               *)
(***************************************************************************)
SingleStringAccessors ==
    {"get_json_from_label", "execute_entity_json", "get_version_string",
     "get_concurrency_type_string"}

\* C25: a list accessor (get_string_list, get_string_value, get_entities)
\* has called DeleteString on neither the list pointer nor its elements; a
\* single-string accessor has copied the bytes of its result and then called
\* DeleteString on it once, before returning.
C25_OwnedFreedBorrowedKept ==
    /\ last.op \in ListAccessors =>
          /\ last.ptrs # <<>>
          /\ \A i \in 1..Len(last.ptrs) : last.ptrs[i].frees = 0
    /\ last.op \in SingleStringAccessors =>
          /\ Len(last.ptrs) = 1
          /\ last.ptrs[1].copied = "live"
          /\ last.ptrs[1].frees = 1

C25_Witness ==
    /\ last.op = "get_string_list"
    /\ last.ptrs[2].copied = "live"
    /\ last.ptrs[2].frees = 0
    /\ exits >= 2

(***************************************************************************)
(* Trace failures and the order of the transcript (SpecTrace).             *)
(***************************************************************************)
\* C21: no engine operation ends with the error of a trace write, be it a
\* write the system refused or a write to the file a failed reset_trace left
\* closed: the operation calls the library and returns its result.
C21_TraceFailureNeverAbortsOperation ==
    (phase = "live" /\ last.op \notin {"none", "reset_trace"}) =>
        last.observed \notin TraceIOErrors

\* The lines a step appended to the file the handle writes to.
Appended ==
    SubSeq(disk'[CurrentSink.path], Len(CurrentLines) + 1,
           Len(disk'[CurrentSink.path]))
Kinds(lines) == [i \in DOMAIN lines |-> lines[i].kind]

\* C23: every engine operation invoked on a tracing handle (whose trace
\* writes the system accepts) appends its own block after the blocks of the
\* operations before it: its command line and then its result line, and for
\* execute_entity_json the start time, the command line, the stop time and
\* the result line.
C23_TranscriptSerializesCallOrder ==
    [][(TracingLive /\ n_traced' = n_traced + 1
            /\ last'.body \notin TraceIOErrors) =>
          /\ IsPrefix(CurrentLines, disk'[CurrentSink.path])
          /\ Kinds(Appended) =
                IF last'.op = "execute_entity_json"
                THEN <<"time", "command", "time", "result">>
                ELSE <<"command", "result">>]_vars

(***************************************************************************)
(* The text of the command lines (SpecFormat).                             *)
(***************************************************************************)
\* The text parameters and flags of each command, in the order logged.
Txt(s) == [text |-> TRUE, val |-> s]
Flag(b) == [text |-> FALSE, val |-> b]
LoggedParams(op, p) ==
    CASE op \in {"get_json_from_label"} -> <<Txt(p.handle), Txt(p.label)>>
      [] op \in {"set_json_to_label", "execute_entity_json"} ->
            <<Txt(p.handle), Txt(p.label), Txt(p.json)>>
      [] op = "load_entity" ->
            <<Txt(p.handle), Txt(p.amlg_path), Flag(p.persist),
              Flag(p.contained), Txt(p.write_log), Txt(p.print_log)>>
      [] op = "verify_entity" -> <<Txt(p.amlg_path)>>
      [] op = "store_entity" ->
            <<Txt(p.handle), Txt(p.amlg_path), Flag(p.persist),
              Flag(p.contained)>>
      [] op = "destroy_entity" -> <<Txt(p.handle)>>
\* A text is written between double quotes with every double quote of its
\* own preceded by a backslash.
EscapedField(s) ==
    LET n == Cardinality({i \in DOMAIN s : s[i] = DQuote})
        pos(i) == i + Cardinality({j \in 1..i : s[j] = DQuote})
    IN  <<DQuote>>
        \o [k \in 1..(Len(s) + n) |->
                IF \E i \in DOMAIN s : pos(i) = k THEN s[CHOOSE i \in DOMAIN s : pos(i) = k]
                ELSE Backslash]
        \o <<DQuote>>
RECURSIVE FieldsText(_)
FieldsText(ps) ==
    IF ps = <<>> THEN <<>>
    ELSE Sp \o (IF Head(ps).text THEN EscapedField(Head(ps).val)
                ELSE BoolLower(Head(ps).val))
            \o FieldsText(Tail(ps))

\* C22: in the text of every logged command, each text parameter (write_log,
\* print_log and json included) stands between double quotes with its own
\* double quotes escaped by a backslash, after the command name and
\* separated by single spaces.
C22_EveryTextParameterEscapedAndQuoted ==
    cmd.logged =>
        /\ Len(cmd.text) > Len(FieldsText(LoggedParams(cmd.op, cmd.params)))
        /\ SubSeq(cmd.text,
                  Len(cmd.text) - Len(FieldsText(LoggedParams(cmd.op, cmd.params))) + 1,
                  Len(cmd.text))
              = FieldsText(LoggedParams(cmd.op, cmd.params))
====
